---- MODULE Spec2Model ----
(***************************************************************************)
(* A model of the proof-of-work ledger node of this repository:            *)
(* Transaction.py, Block.py, Blockchain.py and Node.py.                    *)
(*                                                                         *)
(* Two nodes run the code.  Every node has connection-handler threads, a   *)
(* miner thread and a syncer thread; a step of the model is one atomic     *)
(* section of one thread (a section under a lock, or a single read).       *)
(* Besides the two nodes there is a client that sends create_transaction   *)
(* requests and an external party EXT that connects to the listening       *)
(* ports and answers get_chain requests without running this code.         *)
(*                                                                         *)
(* Abstractions of values:                                                 *)
(*  - a SHA-256 digest is the tuple of the hashed fields (collision free); *)
(*    the number of its leading zero nibbles is a fixed function of it;    *)
(*  - the text "0" used as the genesis prev_hash is the empty tuple;       *)
(*  - a PEM public key is the name of its owner; an ECDSA signature is     *)
(*    the pair (signing key, signed payload);                              *)
(*  - uuid4() is a fresh number; time.time() is the instant Now.           *)
(***************************************************************************)
EXTENDS Integers, Sequences, FiniteSets, Bags, TLC

\* ------------------------------------------------------------ bounds
MaxUuid == 3
MaxClient == 2
MaxExt == 1
MaxSync == 1
PowPeriod == 3
NetClient == 1
NetSync == 1
PullRounds == 2

\* --------------------------------------------------- program constants
difficulty == 4
BLOCK_SIZE_LIMIT == 3
MINING_REWARD == 10
INITIAL_BALANCE == 100
Now == 1

Nodes == {"N1", "N2"}
EXT == "EXT"
COINBASE == "COINBASE"

\* ------------------------------------------------------- Transaction.py
NoSignature == [by |-> "None", over |-> <<>>]
CoinbaseSignature == [by |-> COINBASE, over |-> <<>>]

Transaction(sender, receiver, amount, fee, tx_id, signature, timestamp) ==
    [tx_id |-> tx_id, sender_pubkey |-> sender, receiver_pubkey |-> receiver,
     amount |-> amount, fee |-> fee, timestamp |-> timestamp,
     signature |-> signature]

isTransaction(tx) == "tx_id" \in DOMAIN tx

tx_to_dict(tx) ==
    [tx_id |-> tx.tx_id, sender_pubkey |-> tx.sender_pubkey,
     receiver_pubkey |-> tx.receiver_pubkey, amount |-> tx.amount,
     fee |-> tx.fee, timestamp |-> tx.timestamp, signature |-> tx.signature]

\* Transaction.from_dict raises KeyError when a key read with data[...] is
\* missing.
tx_from_dict_raises(d) ==
    ~({"sender_pubkey", "receiver_pubkey", "amount", "tx_id"} \subseteq DOMAIN d)

\* Transaction.from_dict builds the object through __init__, which replaces
\* a falsy timestamp by the current time; fee, signature and timestamp are
\* read with data.get.
tx_from_dict(d) ==
    Transaction(d.sender_pubkey, d.receiver_pubkey, d.amount,
                IF "fee" \in DOMAIN d THEN d.fee ELSE 0, d.tx_id,
                IF "signature" \in DOMAIN d THEN d.signature ELSE NoSignature,
                IF "timestamp" \in DOMAIN d /\ d.timestamp # 0
                THEN d.timestamp ELSE Now)

get_signing_data(tx) ==
    <<tx.tx_id, tx.sender_pubkey, tx.receiver_pubkey, tx.amount, tx.fee,
      tx.timestamp>>

create_reward_transaction(miner_pubkey, amount, fee_sum, uuid) ==
    Transaction(COINBASE, miner_pubkey, amount + fee_sum, 0, uuid,
                CoinbaseSignature, Now)

\* ECDSA: a signature made with the private key of `key` over `data`.
ecdsa_sign(key, data) == [by |-> key, over |-> data]
ecdsa_verify(pubkey, signature, data) ==
    signature.by = pubkey /\ signature.over = data

\* ------------------------------------------------------------- Block.py
ZeroHash == <<>>
GenesisTx == [type |-> "genesis", message |-> "Genesis Block"]

tx_data(transactions) ==
    [i \in 1..Len(transactions) |->
        IF isTransaction(transactions[i]) THEN tx_to_dict(transactions[i])
        ELSE transactions[i]]

generate_hash(b) ==
    <<b.index, b.timestamp, tx_data(b.transactions), b.prev_hash, b.nonce>>

Block(index, transactions, prev_hash, timestamp, nonce) ==
    LET b == [index |-> index, timestamp |-> timestamp,
              transactions |-> transactions, prev_hash |-> prev_hash,
              nonce |-> nonce, hash |-> ZeroHash]
    IN  [b EXCEPT !.hash = generate_hash(b)]

block_to_dict(b) ==
    [index |-> b.index, timestamp |-> b.timestamp,
     transactions |-> tx_data(b.transactions), prev_hash |-> b.prev_hash,
     nonce |-> b.nonce, hash |-> b.hash]

\* Block.from_dict raises KeyError when a key read with data[...] is missing
\* or a nested Transaction.from_dict raises.
block_from_dict_raises(d) ==
    \/ ~({"index", "transactions", "prev_hash"} \subseteq DOMAIN d)
    \/ \E i \in 1..Len(d.transactions) :
          /\ isTransaction(d.transactions[i])
          /\ tx_from_dict_raises(d.transactions[i])

\* Block.from_dict: timestamp, nonce and hash are read with data.get, and
\* Block.__init__ fills a missing timestamp with the current time and a
\* missing hash with generate_hash().
block_from_dict(d) ==
    LET b == [index |-> d.index,
              timestamp |-> IF "timestamp" \in DOMAIN d THEN d.timestamp
                            ELSE Now,
              transactions |->
                 [i \in 1..Len(d.transactions) |->
                     IF isTransaction(d.transactions[i])
                     THEN tx_from_dict(d.transactions[i])
                     ELSE d.transactions[i]],
              prev_hash |-> d.prev_hash,
              nonce |-> IF "nonce" \in DOMAIN d THEN d.nonce ELSE 0,
              hash |-> ZeroHash]
    IN  [b EXCEPT !.hash = IF "hash" \in DOMAIN d THEN d.hash
                           ELSE generate_hash(b)]

\* The number of leading "0" characters of a digest: a fixed function of
\* the hashed fields that one nonce in every PowPeriod satisfies.  The text
\* "0" has one; the digest of the genesis block, 77e5d351..., has none.
LeadingZeros(h) ==
    IF h = ZeroHash THEN 1
    ELSE LET mix == (h[1] + Len(h[3]) + h[5]) % PowPeriod
         IN  IF mix = 0 THEN difficulty ELSE (mix - 1) % difficulty

startswith_zeros(h, n) == LeadingZeros(h) >= n

\* --------------------------------------------------------- Blockchain.py
create_genesis_block == Block(0, <<GenesisTx>>, ZeroHash, 0, 0)

\* is_valid_block without the difficulty test.
is_valid_block_any_prefix(block, block_hash) ==
    generate_hash(block) = block_hash

is_valid_block(block, block_hash) ==
    /\ startswith_zeros(block_hash, difficulty)
    /\ generate_hash(block) = block_hash

is_valid_chain(c) ==
    /\ Len(c) > 0
    /\ c[1].prev_hash = ZeroHash
    /\ \A i \in 2..Len(c) :
          /\ c[i].prev_hash = c[i - 1].hash
          /\ startswith_zeros(c[i].hash, difficulty)
          /\ generate_hash(c[i]) = c[i].hash

RECURSIVE pow_search(_, _)
pow_search(b, nonce) ==
    IF startswith_zeros(generate_hash([b EXCEPT !.nonce = nonce]), difficulty)
    THEN nonce
    ELSE pow_search(b, nonce + 1)

\* proof_of_work sets the nonce of the block and returns the hash found.
proof_of_work(b) ==
    LET sealed == [b EXCEPT !.nonce = pow_search(b, 0)]
    IN  [sealed EXCEPT !.hash = generate_hash(sealed)]

\* All transactions of the blocks of a chain, in order.
RECURSIVE chain_txs(_)
chain_txs(c) ==
    IF Len(c) = 0 THEN <<>>
    ELSE chain_txs(SubSeq(c, 1, Len(c) - 1)) \o
         SelectSeq(c[Len(c)].transactions, isTransaction)

\* A balance in which the sender is debited the amount without the fee.
RECURSIVE balance_delta_fee_free(_, _)
balance_delta_fee_free(txs, pubkey) ==
    IF Len(txs) = 0 THEN 0
    ELSE LET tx == txs[Len(txs)]
         IN  balance_delta_fee_free(SubSeq(txs, 1, Len(txs) - 1), pubkey)
             - (IF tx.sender_pubkey = pubkey THEN tx.amount ELSE 0)
             + (IF tx.receiver_pubkey = pubkey THEN tx.amount ELSE 0)

RECURSIVE balance_delta(_, _)
balance_delta(txs, pubkey) ==
    IF Len(txs) = 0 THEN 0
    ELSE LET tx == txs[Len(txs)]
         IN  balance_delta(SubSeq(txs, 1, Len(txs) - 1), pubkey)
             - (IF tx.sender_pubkey = pubkey THEN tx.amount + tx.fee ELSE 0)
             + (IF tx.receiver_pubkey = pubkey THEN tx.amount ELSE 0)

get_balance(c, pubkey) ==
    INITIAL_BALANCE + balance_delta(chain_txs(SubSeq(c, 2, Len(c))), pubkey)

RECURSIVE pending_out(_, _)
pending_out(mp, pubkey) ==
    IF Len(mp) = 0 THEN 0
    ELSE pending_out(SubSeq(mp, 1, Len(mp) - 1), pubkey)
         + (IF isTransaction(mp[Len(mp)]) /\ mp[Len(mp)].sender_pubkey = pubkey
            THEN mp[Len(mp)].amount + mp[Len(mp)].fee ELSE 0)

get_balance_with_mempool(c, pubkey, mp) ==
    get_balance(c, pubkey) - pending_out(mp, pubkey)

\* add_block without the comparison of prev_hash with the tip.
add_block_ok_unlinked(c, block, block_hash) ==
    is_valid_block(block, block_hash)

\* add_block(block, block_hash): its result, and the chain after the call.
\* Hashes are text, as the Block type has them, so no statement raises.
add_block_ok(c, block, block_hash) ==
    /\ c[Len(c)].hash = block.prev_hash
    /\ is_valid_block(block, block_hash)

add_block(c, block, block_hash) ==
    IF add_block_ok(c, block, block_hash)
    THEN Append(c, [block EXCEPT !.hash = block_hash])
    ELSE c

\* replace_chain that also takes a chain as long as the local one.
replace_chain_ok_on_tie(c, new_chain) ==
    Len(new_chain) >= Len(c) /\ is_valid_chain(new_chain)

replace_chain_ok(c, new_chain) ==
    Len(new_chain) > Len(c) /\ is_valid_chain(new_chain)

\* replace_chain that takes every valid chain, whatever its length.
replace_chain_any_length(c, new_chain) ==
    IF is_valid_chain(new_chain) THEN new_chain ELSE c

replace_chain(c, new_chain) ==
    IF replace_chain_ok(c, new_chain) THEN new_chain ELSE c

\* ---------------------------------------------------------------- Node.py
\* A membership test that never finds the transaction.
in_mempool_never(mp, tx) == FALSE

\* `tx in self.mempool`: Transaction.__eq__ compares the tx_id alone.
in_mempool(mp, tx) == \E i \in 1..Len(mp) : mp[i].tx_id = tx.tx_id

\* list.remove(tx): drops the first element equal to tx.
list_remove(mp, tx) ==
    LET i == CHOOSE k \in 1..Len(mp) :
                /\ mp[k].tx_id = tx.tx_id
                /\ \A j \in 1..(k - 1) : mp[j].tx_id # tx.tx_id
    IN  SubSeq(mp, 1, i - 1) \o SubSeq(mp, i + 1, Len(mp))

\* for tx in txs: if isinstance(tx, Transaction) and tx in mempool: remove.
RECURSIVE remove_included(_, _)
remove_included(mp, txs) ==
    IF Len(txs) = 0 THEN mp
    ELSE LET tx == Head(txs)
             mp1 == IF isTransaction(tx) /\ in_mempool(mp, tx)
                    THEN list_remove(mp, tx) ELSE mp
         IN  remove_included(mp1, Tail(txs))

\* The mempool in insertion order, not sorted.
sorted_by_fee_unsorted(mp) == mp

\* sorted(mempool, key=fee, reverse=True): stable, highest fee first.
RECURSIVE sorted_by_fee(_)
sorted_by_fee(mp) ==
    IF Len(mp) = 0 THEN <<>>
    ELSE LET i == CHOOSE k \in 1..Len(mp) :
                    /\ \A j \in 1..Len(mp) : mp[j].fee <= mp[k].fee
                    /\ \A j \in 1..(k - 1) : mp[j].fee < mp[k].fee
         IN  <<mp[i]>> \o
             sorted_by_fee(SubSeq(mp, 1, i - 1) \o SubSeq(mp, i + 1, Len(mp)))

pick_transactions(mp, limit) ==
    LET s == sorted_by_fee(mp)
    IN  SubSeq(s, 1, IF Len(s) < limit THEN Len(s) ELSE limit)

RECURSIVE sum_fees(_)
sum_fees(txs) ==
    IF Len(txs) = 0 THEN 0 ELSE Head(txs).fee + sum_fees(Tail(txs))

sign_transaction(key, tx) ==
    [tx EXCEPT !.signature = ecdsa_sign(key, get_signing_data(tx))]

\* The signature part of verify_transaction (an exception counts as False).
signature_ok(tx) ==
    /\ tx.signature.by # "None"
    /\ ecdsa_verify(tx.sender_pubkey, tx.signature, get_signing_data(tx))

verify_transaction(c, mp, tx) ==
    IF tx.sender_pubkey = COINBASE THEN TRUE
    ELSE /\ signature_ok(tx)
         /\ get_balance_with_mempool(c, tx.sender_pubkey, mp)
               >= tx.amount + tx.fee

tx_ids(txs) == {txs[i].tx_id : i \in 1..Len(txs)}

\* The tx_ids of the Transaction objects of the blocks of a chain.
chain_tx_ids(c) == tx_ids(chain_txs(c))

\* old_tx_map of handle_chain_response: tx_id -> the last transaction of the
\* old chain (genesis skipped) with that id.
old_tx_map(old_chain, id) ==
    LET txs == chain_txs(SubSeq(old_chain, 2, Len(old_chain)))
        i == CHOOSE k \in 1..Len(txs) :
                /\ txs[k].tx_id = id
                /\ \A j \in (k + 1)..Len(txs) : txs[j].tx_id # id
    IN  txs[i]

new_tx_ids(new_chain) == chain_tx_ids(SubSeq(new_chain, 2, Len(new_chain)))

orphan_only_ids(old_chain, new_chain) ==
    chain_tx_ids(SubSeq(old_chain, 2, Len(old_chain))) \ new_tx_ids(new_chain)

purge_mempool(mp, ids) ==
    SelectSeq(mp, LAMBDA tx : ~(isTransaction(tx) /\ tx.tx_id \in ids))

\* The reinjection loop of handle_chain_response over the orphan ids taken
\* in the order `order` (a Python set is iterated in no fixed order).
RECURSIVE reinject(_, _, _, _)
reinject(c, mp, old_chain, order) ==
    IF Len(order) = 0 THEN mp
    ELSE LET tx == old_tx_map(old_chain, Head(order))
             mp1 == IF verify_transaction(c, mp, tx) /\ ~in_mempool(mp, tx)
                    THEN Append(mp, tx) ELSE mp
         IN  reinject(c, mp1, old_chain, Tail(order))

\* All orderings of a finite set.
RECURSIVE orderings(_)
orderings(S) ==
    IF S = {} THEN {<<>>}
    ELSE UNION {{<<x>> \o o : o \in orderings(S \ {x})} : x \in S}

\* ------------------------------------------------------------------ state
VARIABLES
    chain,      \* chain[n]: Blockchain.chain of node n
    mempool,    \* mempool[n]: Node.mempool
    disk,       \* disk[n]: the chain last written to blockchain.json
    net,        \* bag of messages sent to a node and not yet accepted
    task,       \* task[n][t]: position and locals of thread t of node n
    is_miner,   \* is_miner[n]: Node.is_miner
    peers,      \* peers[n]: Node.peers, in configuration order
    uuid,       \* the next value uuid4() returns
    clientLeft, \* clientLeft[n]: requests the client may still send to n
    extLeft,    \* messages and chain answers EXT may still send
    syncLeft,   \* syncLeft[n]: rounds the syncer of n may still start
    gossiped,   \* history: <<n, hash>> for every block n has gossiped
    lock_owner, \* lock_owner[n]: the threads that hold Node.lock (N) and
                \* Blockchain.lock (C) of node n, or "free"
    section     \* section[n][t]: the lock operations and blocking calls that
                \* thread t of node n has still to do in its current call

vars == <<chain, mempool, disk, net, task, is_miner, peers, uuid, clientLeft,
          extLeft, syncLeft, gossiped, lock_owner, section>>

Handlers == {"h1", "h2"}
Threads == Handlers \cup {"syncer", "miner"}

NoTx == Transaction("", "", 0, 0, 0, NoSignature, 0)
NoBlock == Block(0 - 1, <<>>, ZeroHash, 0, 0)
NoReq == [receiver_pubkey |-> "", amount |-> 0, fee |-> 0]

Idle ==
    [pc |-> "idle", tx |-> NoTx, block |-> NoBlock, req |-> NoReq,
     new_chain |-> <<>>, old_chain |-> <<>>, peer |-> 0, picked |-> <<>>,
     replaced |-> <<>>]

Genesis == create_genesis_block
public_key_str(n) == n
Other(n) == CHOOSE m \in Nodes : m # n

\* The nodes that are up, and the handler threads a node runs at a time.
Running == DOMAIN task
Runs(n, t) == n \in DOMAIN task /\ t \in DOMAIN task[n]

IsPeer(n, p) == \E i \in 1..Len(peers[n]) : peers[n][i] = p

\* broadcast_to_peers: one connection per peer; a peer that is down is
\* skipped silently and EXT's inbox is not modelled.
broadcast_to_peers(n, type, data) ==
    LET to == {peers[n][i] : i \in 1..Len(peers[n])} \cap Running
    IN  SetToBag({[to |-> p, type |-> type, data |-> data] : p \in to})

\* ------------------------------------------------------ the two locks
\* The calls of the threads as the sequences of their lock operations and
\* blocking calls: "acqN"/"relN" enter and leave `with self.lock` of the
\* Node, "acqC"/"relC" `with self.lock` of the Blockchain, "io" is a
\* connect/send to a peer and "pow" the proof-of-work search.  Both locks
\* are threading.Lock objects: not reentrant.
LocksFree ==
    /\ lock_owner = [n \in Nodes |-> [N |-> "free", C |-> "free"]]
    /\ section = [n \in Nodes |-> [t \in Threads |-> <<>>]]

\* A critical section of the chain lock that takes the node lock inside.
ChainLockedThenNode == <<"acqC", "acqN", "relN", "relC">>

\* get_chain_copy, get_balance, last_block, add_block, replace_chain.
ChainLocked == <<"acqC", "relC">>

\* add_transaction: get_chain_copy; verify_transaction (get_balance unless
\* the sender is COINBASE or the signature fails); then, under the node
\* lock, the membership test, the append and gossip_transaction.
add_transaction_locks ==
    {ChainLocked,
     ChainLocked \o ChainLocked,
     ChainLocked \o ChainLocked \o <<"acqN", "relN">>,
     ChainLocked \o ChainLocked \o <<"acqN", "io", "relN">>,
     ChainLocked \o <<"acqN", "io", "relN">>}

\* handle_chain_response: get_chain_copy and replace_chain; after a
\* replacement the node lock around the mempool repair, in which
\* verify_transaction calls get_balance, and save_blockchain.
handle_chain_response_locks ==
    {ChainLocked \o ChainLocked,
     ChainLocked \o ChainLocked \o <<"acqN", "relN">> \o ChainLocked,
     ChainLocked \o ChainLocked \o <<"acqN">> \o ChainLocked \o <<"relN">>
        \o ChainLocked}

\* request_chain_from_peers with one peer: the request, then the answer.
request_chain_locks ==
    {<<"io">>} \cup {<<"io">> \o p : p \in handle_chain_response_locks}

\* receive_block: add_block; then the mempool under the node lock,
\* save_blockchain and gossip_block, or request_chain_from_peers.
receive_block_locks ==
    {ChainLocked \o <<"acqN", "relN">> \o ChainLocked \o <<"io">>}
      \cup {ChainLocked \o p : p \in request_chain_locks}

\* handle_connection: add_transaction, receive_block,
\* create_and_sign_transaction (get_balance) with add_transaction, send_chain.
handle_connection_locks ==
    add_transaction_locks \cup receive_block_locks
      \cup {ChainLocked} \cup {ChainLocked \o p : p \in add_transaction_locks}
      \cup {ChainLocked \o <<"io">>}

\* mine: pick_transactions, last_block, proof_of_work, add_block; after an
\* append the mempool under the node lock, save_blockchain, gossip_block.
mine_locks ==
    {<<"acqN", "relN">> \o ChainLocked \o <<"pow">> \o ChainLocked,
     <<"acqN", "relN">> \o ChainLocked \o <<"pow">> \o ChainLocked
        \o <<"acqN", "relN">> \o ChainLocked \o <<"io">>}

thread_locks(t) ==
    IF t \in Handlers THEN handle_connection_locks
    ELSE IF t = "syncer" THEN request_chain_locks ELSE mine_locks

LockOf(op) == IF op \in {"acqN", "relN"} THEN "N" ELSE "C"

\* A thread starts a call.
begin_call(n, t) ==
    /\ Runs(n, t)
    /\ section[n][t] = <<>>
    /\ \E p \in thread_locks(t) : section' = [section EXCEPT ![n][t] = p]
    /\ UNCHANGED <<chain, mempool, disk, net, task, is_miner, peers, uuid,
                   clientLeft, extLeft, syncLeft, gossiped, lock_owner>>

\* Lock.acquire: waits until the lock is free.
lock_acquire(n, t) ==
    /\ Runs(n, t)
    /\ section[n][t] # <<>>
    /\ Head(section[n][t]) \in {"acqN", "acqC"}
    /\ lock_owner[n][LockOf(Head(section[n][t]))] = "free"
    /\ lock_owner' = [lock_owner EXCEPT
                        ![n][LockOf(Head(section[n][t]))] = t]
    /\ section' = [section EXCEPT ![n][t] = Tail(@)]
    /\ UNCHANGED <<chain, mempool, disk, net, task, is_miner, peers, uuid,
                   clientLeft, extLeft, syncLeft, gossiped>>

\* Lock.release at the end of the with block.
lock_release(n, t) ==
    /\ Runs(n, t)
    /\ section[n][t] # <<>>
    /\ Head(section[n][t]) \in {"relN", "relC"}
    /\ lock_owner' = [lock_owner EXCEPT
                        ![n][LockOf(Head(section[n][t]))] = "free"]
    /\ section' = [section EXCEPT ![n][t] = Tail(@)]
    /\ UNCHANGED <<chain, mempool, disk, net, task, is_miner, peers, uuid,
                   clientLeft, extLeft, syncLeft, gossiped>>

\* The blocking call returns.
blocking_call(n, t) ==
    /\ Runs(n, t)
    /\ section[n][t] # <<>>
    /\ Head(section[n][t]) \in {"io", "pow"}
    /\ section' = [section EXCEPT ![n][t] = Tail(@)]
    /\ UNCHANGED <<chain, mempool, disk, net, task, is_miner, peers, uuid,
                   clientLeft, extLeft, syncLeft, gossiped, lock_owner>>

\* ------------------------------------------------- the client and EXT
Requests(n) ==
    {[receiver_pubkey |-> public_key_str(Other(n)), amount |-> 70, fee |-> 1],
     [receiver_pubkey |-> public_key_str(Other(n)), amount |-> 30, fee |-> 2]}

\* simulate_transaction: a create_transaction request sent to node n.
ClientRequest(n) ==
    /\ n \in Running
    /\ clientLeft[n] > 0
    /\ \E r \in Requests(n) :
          net' = net (+) SetToBag({[to |-> n, type |-> "create_transaction",
                                    data |-> r]})
    /\ clientLeft' = [clientLeft EXCEPT ![n] = @ - 1]
    /\ UNCHANGED <<chain, mempool, disk, task, is_miner, peers, uuid, extLeft,
                   syncLeft, gossiped, lock_owner, section>>

\* Transactions EXT makes: a coinbase-shaped one, an unsigned one in the name
\* of a node, and one signed with its own key that it cannot fund.
ExtCoinbaseTx == Transaction(COINBASE, "ATT", 50, 0, 91, CoinbaseSignature, Now)
ExtUnsignedTx == Transaction("N2", "ATT", 10, 0, 92, NoSignature, Now)
ExtOverspendTx ==
    sign_transaction("ATT", Transaction("ATT", "N1", 200, 0, 93, NoSignature, Now))
ExtTxs == {ExtCoinbaseTx, ExtUnsignedTx, ExtOverspendTx}

\* Blocks EXT makes on the hash `prev`: sealed correctly ("good"), with a
\* nonce that misses the difficulty ("nopow"), with another block's hash
\* ("forged"), linked to something else ("badprev"), and sealed correctly
\* under the index 0 ("reindexed").
ExtBlock(index, prev, txs, kind) ==
    LET good == proof_of_work(Block(index, txs, prev, Now, 0))
        weak == Block(index, txs, prev, Now, good.nonce + 1)
    IN  CASE kind = "good" -> good
          [] kind = "nopow" -> weak
          [] kind = "forged" -> [weak EXCEPT !.hash = good.hash]
          [] kind = "badprev" ->
                proof_of_work(Block(index, txs, <<index>>, Now, 0))
          [] kind = "reindexed" -> proof_of_work(Block(0, txs, prev, Now, 0))

ExtKinds == {"good", "nopow", "forged", "badprev", "reindexed"}
ExtTxLists == {<<ExtOverspendTx>>, <<ExtUnsignedTx>>}

ExtSendTransaction(n) ==
    /\ n \in Running
    /\ extLeft > 0
    /\ IsPeer(n, EXT)
    /\ \E tx \in ExtTxs :
          net' = net (+) SetToBag({[to |-> n, type |-> "transaction",
                                    data |-> tx_to_dict(tx)]})
    /\ extLeft' = extLeft - 1
    /\ UNCHANGED <<chain, mempool, disk, task, is_miner, peers, uuid,
                   clientLeft, syncLeft, gossiped, lock_owner, section>>

ExtSendBlock(n) ==
    /\ n \in Running
    /\ extLeft > 0
    /\ IsPeer(n, EXT)
    /\ \E txs \in ExtTxLists, kind \in ExtKinds :
          LET tip == chain[n][Len(chain[n])]
              b == ExtBlock(Len(chain[n]), tip.hash, txs, kind)
          IN  net' = net (+) SetToBag({[to |-> n, type |-> "block",
                                        data |-> block_to_dict(b)]})
    /\ extLeft' = extLeft - 1
    /\ UNCHANGED <<chain, mempool, disk, task, is_miner, peers, uuid,
                   clientLeft, syncLeft, gossiped, lock_owner, section>>

\* Chains EXT answers a get_chain request with.
ExtGenesis == [Genesis EXCEPT !.timestamp = 5]
ExtChainsOn(g) ==
    LET x1 == ExtBlock(1, g.hash, <<ExtOverspendTx>>, "good")
        x2 == ExtBlock(2, x1.hash, <<ExtUnsignedTx>>, "good")
    IN  {<<g, x1>>, <<g, x1, x2>>,
         <<g, x1, ExtBlock(2, x1.hash, <<ExtUnsignedTx>>, "nopow")>>,
         <<g, x1, ExtBlock(2, x1.hash, <<ExtUnsignedTx>>, "forged")>>,
         <<g, x1, ExtBlock(2, x1.hash, <<ExtUnsignedTx>>, "badprev")>>}
\* The transaction N1 makes first for a request of 30 with fee 2, as gossiped
\* to its peers, and a first block that carries it.
ExtSeenTx ==
    sign_transaction("N1", Transaction("N1", "N2", 30, 2, 1, NoSignature, Now))
ExtLoadedGenesis == Block(0, <<ExtSeenTx>>, ZeroHash, 0, 0)
ExtChains ==
    ExtChainsOn(Genesis)
      \cup {<<g, ExtBlock(1, g.hash, <<>>, "good")>> :
               g \in {ExtGenesis, ExtLoadedGenesis}}
      \cup {<<>>}

\* ----------------------------------------------- Node.handle_connection
SetTask(n, t, r) == task' = [task EXCEPT ![n][t] = r]

\* The messages on which handle_connection does nothing but close the
\* connection: bytes that json.loads rejects (a message with a `text`
\* field), a missing `type` or a missing key of the payload (KeyError, caught
\* by the except clause), and a type that no branch handles.
handle_connection_drops(m) ==
    \/ "text" \in DOMAIN m
    \/ "type" \notin DOMAIN m
    \/ m.type \notin {"transaction", "block", "create_transaction"}
    \/ "data" \notin DOMAIN m
    \/ m.type = "transaction" /\ tx_from_dict_raises(m.data)
    \/ m.type = "block" /\ block_from_dict_raises(m.data)
    \/ /\ m.type = "create_transaction"
       /\ ~({"receiver_pubkey", "amount"} \subseteq DOMAIN m.data)

\* accept a connection, read the message to EOF and dispatch on its type.
handle_connection(n, h) ==
    /\ Runs(n, h)
    /\ task[n][h].pc = "idle"
    /\ \E m \in BagToSet(net) :
          /\ m.to = n
          /\ net' = net (-) SetToBag({m})
          /\ IF handle_connection_drops(m) THEN SetTask(n, h, Idle)
             ELSE
             CASE m.type = "transaction" ->
                    SetTask(n, h, [Idle EXCEPT !.pc = "at_chain",
                                               !.tx = tx_from_dict(m.data)])
               [] m.type = "block" ->
                    SetTask(n, h, [Idle EXCEPT !.pc = "rb_add",
                                               !.block = block_from_dict(m.data)])
               [] m.type = "create_transaction" ->
                    SetTask(n, h, [Idle EXCEPT
                        !.pc = "create",
                        !.req = [receiver_pubkey |-> m.data.receiver_pubkey,
                                 amount |-> m.data.amount,
                                 fee |-> IF "fee" \in DOMAIN m.data
                                         THEN m.data.fee ELSE 0]])
    /\ UNCHANGED <<chain, mempool, disk, is_miner, peers, uuid, clientLeft,
                   extLeft, syncLeft, gossiped, lock_owner, section>>

\* create_and_sign_transaction: the balance check, then a signed transaction
\* with a fresh tx_id; handle_connection passes it to add_transaction.
create_and_sign_transaction(n, h) ==
    /\ Runs(n, h)
    /\ task[n][h].pc = "create"
    /\ uuid <= MaxUuid
    /\ LET r == task[n][h].req
           balance == get_balance_with_mempool(chain[n], public_key_str(n),
                                               mempool[n])
           tx == sign_transaction(public_key_str(n),
                    Transaction(public_key_str(n), r.receiver_pubkey, r.amount,
                                r.fee, uuid, NoSignature, Now))
       IN  IF balance < r.amount + r.fee
           THEN SetTask(n, h, Idle) /\ uuid' = uuid
           ELSE /\ SetTask(n, h, [Idle EXCEPT !.pc = "at_chain", !.tx = tx])
                /\ uuid' = uuid + 1
    /\ UNCHANGED <<chain, mempool, disk, net, is_miner, peers, clientLeft,
                   extLeft, syncLeft, gossiped, lock_owner, section>>

\* add_transaction, first part: the transaction is looked up in a copy of
\* the chain.
add_transaction_check(n, h) ==
    /\ Runs(n, h)
    /\ task[n][h].pc = "at_chain"
    /\ IF task[n][h].tx.tx_id \in chain_tx_ids(chain[n])
       THEN SetTask(n, h, Idle)
       ELSE SetTask(n, h, [task[n][h] EXCEPT !.pc = "at_verify"])
    /\ UNCHANGED <<chain, mempool, disk, net, is_miner, peers, uuid,
                   clientLeft, extLeft, syncLeft, gossiped, lock_owner,
                   section>>

\* add_transaction, second part: verify_transaction.
add_transaction_verify(n, h) ==
    /\ Runs(n, h)
    /\ task[n][h].pc = "at_verify"
    /\ IF verify_transaction(chain[n], mempool[n], task[n][h].tx)
       THEN SetTask(n, h, [task[n][h] EXCEPT !.pc = "at_insert"])
       ELSE SetTask(n, h, Idle)
    /\ UNCHANGED <<chain, mempool, disk, net, is_miner, peers, uuid,
                   clientLeft, extLeft, syncLeft, gossiped, lock_owner,
                   section>>

\* add_transaction, last part, under the node lock: the append and the
\* gossip when the mempool does not hold the transaction yet.
add_transaction_insert(n, h) ==
    /\ Runs(n, h)
    /\ task[n][h].pc = "at_insert"
    /\ LET tx == task[n][h].tx
       IN  IF in_mempool(mempool[n], tx)
           THEN UNCHANGED <<mempool, net>>
           ELSE /\ mempool' = [mempool EXCEPT ![n] = Append(@, tx)]
                /\ net' = net (+) broadcast_to_peers(n, "transaction",
                                                     tx_to_dict(tx))
    /\ SetTask(n, h, Idle)
    /\ UNCHANGED <<chain, disk, is_miner, peers, uuid, clientLeft, extLeft,
                   syncLeft, gossiped, lock_owner, section>>

\* --------------------------------------------------- Node.receive_block
\* receive_block without the test of add_block's result: the block is
\* gossiped whether or not it was appended.
receive_block_add_regossip(n, h) ==
    /\ Runs(n, h)
    /\ task[n][h].pc = "rb_add"
    /\ LET b == task[n][h].block
       IN  chain' = [chain EXCEPT ![n] = add_block(@, b, b.hash)]
    /\ SetTask(n, h, [task[n][h] EXCEPT !.pc = "rb_mempool"])
    /\ UNCHANGED <<mempool, disk, net, is_miner, peers, uuid, clientLeft,
                   extLeft, syncLeft, gossiped, lock_owner, section>>

\* add_block under the chain lock; a failure starts request_chain_from_peers.
receive_block_add(n, h) ==
    /\ Runs(n, h)
    /\ task[n][h].pc = "rb_add"
    /\ LET b == task[n][h].block
       IN  /\ chain' = [chain EXCEPT ![n] = add_block(@, b, b.hash)]
           /\ IF add_block_ok(chain[n], b, b.hash)
              THEN SetTask(n, h, [task[n][h] EXCEPT !.pc = "rb_mempool"])
              ELSE SetTask(n, h, [Idle EXCEPT !.pc = "sy_pull", !.peer = 1])
    /\ UNCHANGED <<mempool, disk, net, is_miner, peers, uuid, clientLeft,
                   extLeft, syncLeft, gossiped, lock_owner, section>>

\* under the node lock: the block's transactions leave the mempool.
receive_block_mempool(n, h) ==
    /\ Runs(n, h)
    /\ task[n][h].pc = "rb_mempool"
    /\ mempool' = [mempool EXCEPT
                     ![n] = remove_included(@, task[n][h].block.transactions)]
    /\ SetTask(n, h, [task[n][h] EXCEPT !.pc = "rb_publish"])
    /\ UNCHANGED <<chain, disk, net, is_miner, peers, uuid, clientLeft,
                   extLeft, syncLeft, gossiped, lock_owner, section>>

\* save_blockchain and gossip_block.
receive_block_publish(n, h) ==
    /\ Runs(n, h)
    /\ task[n][h].pc = "rb_publish"
    /\ disk' = [disk EXCEPT ![n] = chain[n]]
    /\ net' = net (+) broadcast_to_peers(n, "block",
                                         block_to_dict(task[n][h].block))
    /\ gossiped' = gossiped \cup {<<n, task[n][h].block.hash>>}
    /\ SetTask(n, h, Idle)
    /\ UNCHANGED <<chain, mempool, is_miner, peers, uuid, clientLeft, extLeft,
                   syncLeft, lock_owner, section>>

\* ------------------------------- Node.request_chain_from_peers and after
\* A chain answer that lacks the last block of the chain.
wire_chain_truncated(c) ==
    [k \in 1..(IF Len(c) > 1 THEN Len(c) - 1 ELSE Len(c)) |->
        block_from_dict(block_to_dict(c[k]))]

wire_chain(c) == [k \in 1..Len(c) |-> block_from_dict(block_to_dict(c[k]))]

\* request_chain_from_peers that returns after the first peer.
NextPeer_return(n, t) == SetTask(n, t, Idle)

NextPeer(n, t) ==
    SetTask(n, t, [Idle EXCEPT !.pc = "sy_pull", !.peer = task[n][t].peer + 1])

\* periodic_chain_sync: the syncer wakes up and starts a round.  A negative
\* syncLeft[n] leaves the loop without a bound on its rounds.
periodic_chain_sync(n) ==
    /\ Runs(n, "syncer")
    /\ task[n]["syncer"].pc = "idle"
    /\ syncLeft[n] # 0
    /\ syncLeft' = [syncLeft EXCEPT ![n] = IF @ > 0 THEN @ - 1 ELSE @]
    /\ SetTask(n, "syncer", [Idle EXCEPT !.pc = "sy_pull", !.peer = 1])
    /\ UNCHANGED <<chain, mempool, disk, net, is_miner, peers, uuid,
                   clientLeft, extLeft, gossiped, lock_owner, section>>

\* One peer of the loop of request_chain_from_peers: get_chain is sent and
\* the answer (the peer's send_chain, a copy of its chain) is decoded.  A
\* peer that does not answer is skipped.
request_chain(n, t) ==
    /\ Runs(n, t)
    /\ task[n][t].pc = "sy_pull"
    /\ LET i == task[n][t].peer
       IN  IF i > Len(peers[n])
           THEN SetTask(n, t, Idle) /\ extLeft' = extLeft
           ELSE IF peers[n][i] \in Nodes \ Running
           THEN NextPeer(n, t) /\ extLeft' = extLeft
           ELSE IF peers[n][i] \in Running
           THEN /\ SetTask(n, t, [task[n][t] EXCEPT
                        !.pc = "hcr_snapshot",
                        !.new_chain = wire_chain(chain[peers[n][i]])])
                /\ extLeft' = extLeft
           ELSE \/ NextPeer(n, t) /\ extLeft' = extLeft
                \/ /\ extLeft > 0
                   /\ extLeft' = extLeft - 1
                   /\ \E c \in ExtChains :
                         SetTask(n, t, [task[n][t] EXCEPT
                             !.pc = "hcr_snapshot", !.new_chain = wire_chain(c)])
    /\ UNCHANGED <<chain, mempool, disk, net, is_miner, peers, uuid,
                   clientLeft, syncLeft, gossiped, lock_owner, section>>

\* handle_chain_response: old_chain = get_chain_copy().
handle_chain_response_snapshot(n, t) ==
    /\ Runs(n, t)
    /\ task[n][t].pc = "hcr_snapshot"
    /\ SetTask(n, t, [task[n][t] EXCEPT !.pc = "hcr_replace",
                                        !.old_chain = chain[n]])
    /\ UNCHANGED <<chain, mempool, disk, net, is_miner, peers, uuid,
                   clientLeft, extLeft, syncLeft, gossiped, lock_owner,
                   section>>

\* handle_chain_response: replace_chain(new_chain), under the chain lock.
\* `replaced` is history: the chain that the call swapped out.
handle_chain_response_replace(n, t) ==
    /\ Runs(n, t)
    /\ task[n][t].pc = "hcr_replace"
    /\ chain' = [chain EXCEPT ![n] = replace_chain(@, task[n][t].new_chain)]
    /\ IF replace_chain_ok(chain[n], task[n][t].new_chain)
       THEN SetTask(n, t, [task[n][t] EXCEPT !.pc = "hcr_mempool",
                                             !.replaced = chain[n]])
       ELSE NextPeer(n, t)
    /\ UNCHANGED <<mempool, disk, net, is_miner, peers, uuid, clientLeft,
                   extLeft, syncLeft, gossiped, lock_owner, section>>

\* handle_chain_response, under the node lock: the mempool is purged of the
\* adopted chain's transactions and the orphans are reinjected.
handle_chain_response_mempool(n, t) ==
    /\ Runs(n, t)
    /\ task[n][t].pc = "hcr_mempool"
    /\ LET old == task[n][t].old_chain
           new == task[n][t].new_chain
       IN  \E order \in orderings(orphan_only_ids(old, new)) :
              mempool' = [mempool EXCEPT ![n] =
                  reinject(chain[n], purge_mempool(@, new_tx_ids(new)), old,
                           order)]
    /\ SetTask(n, t, [task[n][t] EXCEPT !.pc = "hcr_save"])
    /\ UNCHANGED <<chain, disk, net, is_miner, peers, uuid, clientLeft,
                   extLeft, syncLeft, gossiped, lock_owner, section>>

\* handle_chain_response: save_blockchain, then the next peer.
handle_chain_response_save(n, t) ==
    /\ Runs(n, t)
    /\ task[n][t].pc = "hcr_save"
    /\ disk' = [disk EXCEPT ![n] = chain[n]]
    /\ NextPeer(n, t)
    /\ UNCHANGED <<chain, mempool, net, is_miner, peers, uuid, clientLeft,
                   extLeft, syncLeft, gossiped, lock_owner, section>>

\* ------------------------------------------------------------ Node.mine
\* the mempool is not empty: pick_transactions under the node lock.
mine_pick(n) ==
    /\ Runs(n, "miner")
    /\ is_miner[n]
    /\ task[n]["miner"].pc = "idle"
    /\ mempool[n] # <<>>
    /\ SetTask(n, "miner", [Idle EXCEPT
           !.pc = "m_build",
           !.picked = pick_transactions(mempool[n], BLOCK_SIZE_LIMIT - 1)])
    /\ UNCHANGED <<chain, mempool, disk, net, is_miner, peers, uuid,
                   clientLeft, extLeft, syncLeft, gossiped, lock_owner,
                   section>>

\* last_block(), the reward transaction, the block and its proof of work.
mine_build(n) ==
    /\ Runs(n, "miner")
    /\ task[n]["miner"].pc = "m_build"
    /\ uuid <= MaxUuid
    /\ LET txs_to_mine == task[n]["miner"].picked
           reward_tx == create_reward_transaction(public_key_str(n),
                            MINING_REWARD, sum_fees(txs_to_mine), uuid)
           last_block == chain[n][Len(chain[n])]
           new_block == Block(last_block.index + 1, <<reward_tx>> \o txs_to_mine,
                              last_block.hash, Now, 0)
       IN  SetTask(n, "miner", [task[n]["miner"] EXCEPT
               !.pc = "m_add", !.block = proof_of_work(new_block)])
    /\ uuid' = uuid + 1
    /\ UNCHANGED <<chain, mempool, disk, net, is_miner, peers, clientLeft,
                   extLeft, syncLeft, gossiped, lock_owner, section>>

\* mine() without the test of add_block's result: the steps after add_block
\* run whether or not the block was appended.
mine_add_unconditional(n) ==
    /\ Runs(n, "miner")
    /\ task[n]["miner"].pc = "m_add"
    /\ LET b == task[n]["miner"].block
       IN  chain' = [chain EXCEPT ![n] = add_block(@, b, b.hash)]
    /\ SetTask(n, "miner", [task[n]["miner"] EXCEPT !.pc = "m_mempool"])
    /\ UNCHANGED <<mempool, disk, net, is_miner, peers, uuid, clientLeft,
                   extLeft, syncLeft, gossiped, lock_owner, section>>

\* add_block(new_block, block_hash), under the chain lock.
mine_add(n) ==
    /\ Runs(n, "miner")
    /\ task[n]["miner"].pc = "m_add"
    /\ LET b == task[n]["miner"].block
       IN  /\ chain' = [chain EXCEPT ![n] = add_block(@, b, b.hash)]
           /\ IF add_block_ok(chain[n], b, b.hash)
              THEN SetTask(n, "miner", [task[n]["miner"] EXCEPT !.pc = "m_mempool"])
              ELSE SetTask(n, "miner", Idle)
    /\ UNCHANGED <<mempool, disk, net, is_miner, peers, uuid, clientLeft,
                   extLeft, syncLeft, gossiped, lock_owner, section>>

\* under the node lock: the picked transactions leave the mempool.
mine_mempool(n) ==
    /\ Runs(n, "miner")
    /\ task[n]["miner"].pc = "m_mempool"
    /\ mempool' = [mempool EXCEPT
                     ![n] = remove_included(@, task[n]["miner"].picked)]
    /\ SetTask(n, "miner", [task[n]["miner"] EXCEPT !.pc = "m_publish"])
    /\ UNCHANGED <<chain, disk, net, is_miner, peers, uuid, clientLeft,
                   extLeft, syncLeft, gossiped, lock_owner, section>>

\* save_blockchain and gossip_block.
mine_publish(n) ==
    /\ Runs(n, "miner")
    /\ task[n]["miner"].pc = "m_publish"
    /\ disk' = [disk EXCEPT ![n] = chain[n]]
    /\ net' = net (+) broadcast_to_peers(n, "block",
                                         block_to_dict(task[n]["miner"].block))
    /\ gossiped' = gossiped \cup {<<n, task[n]["miner"].block.hash>>}
    /\ SetTask(n, "miner", Idle)
    /\ UNCHANGED <<chain, mempool, is_miner, peers, uuid, clientLeft, extLeft,
                   syncLeft, lock_owner, section>>

\* ---------------------------------------------------------- specification
\* Node.__init__ (a fresh node directory: the genesis-only chain is saved
\* and loaded back), then run_node's add_peer calls.  Node N1 is up as a
\* miner with peers N2, which is down, and EXT.
Init ==
    /\ chain = [n \in Nodes |-> <<Genesis>>]
    /\ mempool = [n \in Nodes |-> <<>>]
    /\ disk = [n \in Nodes |-> <<Genesis>>]
    /\ net = EmptyBag
    /\ task = [n \in {"N1"} |-> [t \in Threads |-> Idle]]
    /\ is_miner = [n \in Nodes |-> n = "N1"]
    /\ peers = [n \in Nodes |-> IF n = "N1" THEN <<"N2", EXT>> ELSE <<"N1">>]
    /\ uuid = 1
    /\ clientLeft = [n \in Nodes |-> IF n = "N1" THEN MaxClient ELSE 0]
    /\ extLeft = MaxExt
    /\ syncLeft = [n \in Nodes |-> IF n = "N1" THEN MaxSync ELSE 0]
    /\ gossiped = {}
    /\ LocksFree

Next ==
    \E n \in Nodes :
        \/ ClientRequest(n)
        \/ ExtSendTransaction(n)
        \/ ExtSendBlock(n)
        \/ periodic_chain_sync(n)
        \/ mine_pick(n)
        \/ mine_build(n)
        \/ mine_add(n)
        \/ mine_mempool(n)
        \/ mine_publish(n)
        \/ \E h \in Handlers :
              \/ handle_connection(n, h)
              \/ create_and_sign_transaction(n, h)
              \/ add_transaction_check(n, h)
              \/ add_transaction_verify(n, h)
              \/ add_transaction_insert(n, h)
              \/ receive_block_add(n, h)
              \/ receive_block_mempool(n, h)
              \/ receive_block_publish(n, h)
        \/ \E t \in Handlers \cup {"syncer"} :
              \/ request_chain(n, t)
              \/ handle_chain_response_snapshot(n, t)
              \/ handle_chain_response_replace(n, t)
              \/ handle_chain_response_mempool(n, t)
              \/ handle_chain_response_save(n, t)

Spec == Init /\ [][Next]_vars

\* Two nodes that are each other's only peer, both up and both miners, with
\* one handler thread each; the client sends its requests to N1.
NetThreads == {"h1", "syncer", "miner"}

InitNet ==
    /\ chain = [n \in Nodes |-> <<Genesis>>]
    /\ mempool = [n \in Nodes |-> <<>>]
    /\ disk = [n \in Nodes |-> <<Genesis>>]
    /\ net = EmptyBag
    /\ task = [n \in Nodes |-> [t \in NetThreads |-> Idle]]
    /\ is_miner = [n \in Nodes |-> TRUE]
    /\ peers = [n \in Nodes |-> <<Other(n)>>]
    /\ uuid = 1
    /\ clientLeft = [n \in Nodes |-> IF n = "N1" THEN NetClient ELSE 0]
    /\ extLeft = 0
    /\ syncLeft = [n \in Nodes |-> IF n = "N1" THEN NetSync ELSE 0]
    /\ gossiped = {}
    /\ LocksFree

NextNet ==
    \E n \in Nodes :
        \/ ClientRequest(n)
        \/ periodic_chain_sync(n)
        \/ mine_pick(n)
        \/ mine_build(n)
        \/ mine_add(n)
        \/ mine_mempool(n)
        \/ mine_publish(n)
        \/ \E h \in Handlers :
              \/ handle_connection(n, h)
              \/ create_and_sign_transaction(n, h)
              \/ add_transaction_check(n, h)
              \/ add_transaction_verify(n, h)
              \/ add_transaction_insert(n, h)
              \/ receive_block_add(n, h)
              \/ receive_block_mempool(n, h)
              \/ receive_block_publish(n, h)
        \/ \E t \in Handlers \cup {"syncer"} :
              \/ request_chain(n, t)
              \/ handle_chain_response_snapshot(n, t)
              \/ handle_chain_response_replace(n, t)
              \/ handle_chain_response_mempool(n, t)
              \/ handle_chain_response_save(n, t)

SpecNet == InitNet /\ [][NextNet]_vars

\* The block mine() of node n seals on the block `tip` from the picked
\* transactions txs, with id as the tx_id of the reward transaction.
MinedBlock(n, tip, txs, id) ==
    proof_of_work(Block(tip.index + 1,
                        <<create_reward_transaction(public_key_str(n),
                              MINING_REWARD, sum_fees(txs), id)>> \o txs,
                        tip.hash, Now, 0))

\* Chains that mining has produced: N1's two blocks on the genesis block,
\* N2's two blocks on it, and their prefixes.
PulledTx(n, id) ==
    sign_transaction(public_key_str(n),
        Transaction(public_key_str(n), public_key_str(Other(n)), 30, 2, id,
                    NoSignature, Now))
MinedChains ==
    LET a1 == MinedBlock("N1", Genesis, <<PulledTx("N1", 1)>>, 2)
        a2 == MinedBlock("N1", a1, <<PulledTx("N2", 3)>>, 4)
        b1 == MinedBlock("N2", Genesis, <<PulledTx("N2", 3)>>, 5)
        b2 == MinedBlock("N2", b1, <<PulledTx("N1", 1)>>, 6)
    IN  {<<Genesis>>, <<Genesis, a1>>, <<Genesis, a1, a2>>,
         <<Genesis, b1>>, <<Genesis, b1, b2>>}

\* Two nodes that are each other's only peer hold mined chains; nothing is
\* mined and no message is received: only the syncers run.
InitPull ==
    /\ chain \in [Nodes -> MinedChains]
    /\ mempool = [n \in Nodes |-> <<>>]
    /\ disk = chain
    /\ net = EmptyBag
    /\ task = [n \in Nodes |-> [t \in {"syncer"} |-> Idle]]
    /\ is_miner = [n \in Nodes |-> FALSE]
    /\ peers = [n \in Nodes |-> <<Other(n)>>]
    /\ uuid = 1
    /\ clientLeft = [n \in Nodes |-> 0]
    /\ extLeft = 0
    /\ syncLeft = [n \in Nodes |-> PullRounds]
    /\ gossiped = {}
    /\ LocksFree

NextPull ==
    \E n \in Nodes :
        \/ periodic_chain_sync(n)
        \/ request_chain(n, "syncer")
        \/ handle_chain_response_snapshot(n, "syncer")
        \/ handle_chain_response_replace(n, "syncer")
        \/ handle_chain_response_mempool(n, "syncer")
        \/ handle_chain_response_save(n, "syncer")

SpecPull == InitPull /\ [][NextPull]_vars

\* Messages that are not well formed.  Node N1 is up with two handlers and
\* the peers N2, which is down, and EXT, which sends messages that are not
\* well formed and well-formed ones, and answers get_chain.
MaxMalformed == 2
Without(r, f) == [k \in DOMAIN r \ {f} |-> r[k]]
ExtFundedTx ==
    sign_transaction("ATT", Transaction("ATT", "N1", 10, 0, 94, NoSignature, Now))
MalformedMessages(n) ==
    LET tip == chain[n][Len(chain[n])]
        b == block_to_dict(ExtBlock(Len(chain[n]), tip.hash, <<>>, "good"))
        tx == tx_to_dict(ExtFundedTx)
    IN  {[to |-> n, text |-> "{"],
         [to |-> n, data |-> tx],
         [to |-> n, type |-> "ping", data |-> tx],
         [to |-> n, type |-> "transaction"],
         [to |-> n, type |-> "transaction", data |-> Without(tx, "tx_id")],
         [to |-> n, type |-> "transaction", data |-> Without(tx, "fee")],
         [to |-> n, type |-> "block", data |-> Without(b, "index")],
         [to |-> n, type |-> "block", data |-> Without(b, "timestamp")],
         [to |-> n, type |-> "block", data |-> Without(b, "hash")],
         [to |-> n, type |-> "create_transaction",
          data |-> [receiver_pubkey |-> "N2"]]}

ExtSendMalformed(n) ==
    /\ n \in Running
    /\ extLeft > 0
    /\ IsPeer(n, EXT)
    /\ \E m \in MalformedMessages(n) : net' = net (+) SetToBag({m})
    /\ extLeft' = extLeft - 1
    /\ UNCHANGED <<chain, mempool, disk, task, is_miner, peers, uuid,
                   clientLeft, syncLeft, gossiped, lock_owner, section>>

InitMalformed ==
    /\ chain = [n \in Nodes |-> <<Genesis>>]
    /\ mempool = [n \in Nodes |-> <<>>]
    /\ disk = [n \in Nodes |-> <<Genesis>>]
    /\ net = EmptyBag
    /\ task = [n \in {"N1"} |-> [t \in Handlers |-> Idle]]
    /\ is_miner = [n \in Nodes |-> FALSE]
    /\ peers = [n \in Nodes |-> IF n = "N1" THEN <<"N2", EXT>> ELSE <<"N1">>]
    /\ uuid = 1
    /\ clientLeft = [n \in Nodes |-> 0]
    /\ extLeft = MaxMalformed
    /\ syncLeft = [n \in Nodes |-> 0]
    /\ gossiped = {}
    /\ LocksFree

NextMalformed ==
    \E n \in Nodes :
        \/ ExtSendMalformed(n)
        \/ ExtSendTransaction(n)
        \/ ExtSendBlock(n)
        \/ \E h \in Handlers :
              \/ handle_connection(n, h)
              \/ add_transaction_check(n, h)
              \/ add_transaction_verify(n, h)
              \/ add_transaction_insert(n, h)
              \/ receive_block_add(n, h)
              \/ receive_block_mempool(n, h)
              \/ receive_block_publish(n, h)
              \/ request_chain(n, h)
              \/ handle_chain_response_snapshot(n, h)
              \/ handle_chain_response_replace(n, h)
              \/ handle_chain_response_mempool(n, h)
              \/ handle_chain_response_save(n, h)

SpecMalformed == InitMalformed /\ [][NextMalformed]_vars

\* The locks of one node: N1 runs two handlers, the syncer and the miner.
InitLocks ==
    /\ chain = [n \in Nodes |-> <<Genesis>>]
    /\ mempool = [n \in Nodes |-> <<>>]
    /\ disk = [n \in Nodes |-> <<Genesis>>]
    /\ net = EmptyBag
    /\ task = [n \in {"N1"} |-> [t \in Threads |-> Idle]]
    /\ is_miner = [n \in Nodes |-> n = "N1"]
    /\ peers = [n \in Nodes |-> <<Other(n)>>]
    /\ uuid = 1
    /\ clientLeft = [n \in Nodes |-> 0]
    /\ extLeft = 0
    /\ syncLeft = [n \in Nodes |-> 0]
    /\ gossiped = {}
    /\ LocksFree

NextLocks ==
    \E n \in Nodes : \E t \in Threads :
        \/ begin_call(n, t)
        \/ lock_acquire(n, t)
        \/ lock_release(n, t)
        \/ blocking_call(n, t)

SpecLocks == InitLocks /\ [][NextLocks]_vars

\* Requests with a negative amount or fee: the client sends node N1, a miner
\* with one handler, create_transaction requests out of SignedRequests.
MaxSigned == 2
SignedRequests(n) ==
    {[receiver_pubkey |-> public_key_str(Other(n)), amount |-> 0 - 50, fee |-> 0],
     [receiver_pubkey |-> public_key_str(Other(n)), amount |-> 10, fee |-> 0 - 1],
     [receiver_pubkey |-> public_key_str(Other(n)), amount |-> 20, fee |-> 1]}

ClientRequestSigned(n) ==
    /\ n \in Running
    /\ clientLeft[n] > 0
    /\ \E r \in SignedRequests(n) :
          net' = net (+) SetToBag({[to |-> n, type |-> "create_transaction",
                                    data |-> r]})
    /\ clientLeft' = [clientLeft EXCEPT ![n] = @ - 1]
    /\ UNCHANGED <<chain, mempool, disk, task, is_miner, peers, uuid, extLeft,
                   syncLeft, gossiped, lock_owner, section>>

InitSigned ==
    /\ chain = [n \in Nodes |-> <<Genesis>>]
    /\ mempool = [n \in Nodes |-> <<>>]
    /\ disk = [n \in Nodes |-> <<Genesis>>]
    /\ net = EmptyBag
    /\ task = [n \in {"N1"} |-> [t \in {"h1", "miner"} |-> Idle]]
    /\ is_miner = [n \in Nodes |-> n = "N1"]
    /\ peers = [n \in Nodes |-> <<Other(n)>>]
    /\ uuid = 1
    /\ clientLeft = [n \in Nodes |-> IF n = "N1" THEN MaxSigned ELSE 0]
    /\ extLeft = 0
    /\ syncLeft = [n \in Nodes |-> 0]
    /\ gossiped = {}
    /\ LocksFree

NextSigned ==
    \E n \in Nodes :
        \/ ClientRequestSigned(n)
        \/ mine_pick(n)
        \/ mine_build(n)
        \/ mine_add(n)
        \/ mine_mempool(n)
        \/ mine_publish(n)
        \/ \E h \in Handlers :
              \/ handle_connection(n, h)
              \/ create_and_sign_transaction(n, h)
              \/ add_transaction_check(n, h)
              \/ add_transaction_verify(n, h)
              \/ add_transaction_insert(n, h)

SpecSigned == InitSigned /\ [][NextSigned]_vars

\* Decoding of what to_dict has encoded: node N1 has one inbound message,
\* the to_dict of a signed transaction or of a sealed block with field values
\* drawn from small sets, and one handler, which decodes it with from_dict.
CodecAmounts == {0, 5}
CodecFees == {0, 1}
CodecTimestamps == {0, Now}
CodecIds == {1, 2}
CodecTxs ==
    {sign_transaction(sender,
         Transaction(sender, public_key_str(Other(sender)), amount, fee, id,
                     NoSignature, ts)) :
       sender \in Nodes, amount \in CodecAmounts, fee \in CodecFees,
       id \in CodecIds, ts \in CodecTimestamps}
CodecBlocks ==
    {proof_of_work(Block(1, txs, Genesis.hash, ts, 0)) :
       txs \in {<<>>} \cup {<<tx>> : tx \in CodecTxs},
       ts \in CodecTimestamps}
CodecMessages ==
    {[to |-> "N1", type |-> "transaction", data |-> tx_to_dict(tx)] :
        tx \in CodecTxs}
      \cup {[to |-> "N1", type |-> "block", data |-> block_to_dict(b)] :
               b \in CodecBlocks}

InitCodec ==
    /\ chain = [n \in Nodes |-> <<Genesis>>]
    /\ mempool = [n \in Nodes |-> <<>>]
    /\ disk = [n \in Nodes |-> <<Genesis>>]
    /\ \E m \in CodecMessages : net = SetToBag({m})
    /\ task = [n \in {"N1"} |-> [t \in {"h1"} |-> Idle]]
    /\ is_miner = [n \in Nodes |-> FALSE]
    /\ peers = [n \in Nodes |-> <<Other(n)>>]
    /\ uuid = 1
    /\ clientLeft = [n \in Nodes |-> 0]
    /\ extLeft = 0
    /\ syncLeft = [n \in Nodes |-> 0]
    /\ gossiped = {}
    /\ LocksFree

NextCodec == \E n \in Nodes : \E h \in Handlers : handle_connection(n, h)

SpecCodec == InitCodec /\ [][NextCodec]_vars

\* The two-miner race: both nodes are miners and each other's only peer, and
\* both mempools hold the pending transaction RaceTx, which N1 created and
\* gossiped.  No client sends a request; the syncers run for ever.
RaceTx == PulledTx("N1", 1)

InitRace ==
    /\ chain = [n \in Nodes |-> <<Genesis>>]
    /\ mempool = [n \in Nodes |-> <<RaceTx>>]
    /\ disk = [n \in Nodes |-> <<Genesis>>]
    /\ net = EmptyBag
    /\ task = [n \in Nodes |-> [t \in NetThreads |-> Idle]]
    /\ is_miner = [n \in Nodes |-> TRUE]
    /\ peers = [n \in Nodes |-> <<Other(n)>>]
    /\ uuid = 2
    /\ clientLeft = [n \in Nodes |-> 0]
    /\ extLeft = 0
    /\ syncLeft = [n \in Nodes |-> -1]
    /\ gossiped = {}
    /\ LocksFree

\* The steps of the miner thread, of a chain pull, of the syncer thread and
\* of a handler thread that receives blocks.
MinerStep(n) ==
    \/ mine_pick(n)
    \/ mine_build(n)
    \/ mine_add(n)
    \/ mine_mempool(n)
    \/ mine_publish(n)
PullStep(n, t) ==
    \/ request_chain(n, t)
    \/ handle_chain_response_snapshot(n, t)
    \/ handle_chain_response_replace(n, t)
    \/ handle_chain_response_mempool(n, t)
    \/ handle_chain_response_save(n, t)
SyncerStep(n) == periodic_chain_sync(n) \/ PullStep(n, "syncer")
HandlerStep(n, h) ==
    \/ handle_connection(n, h)
    \/ receive_block_add(n, h)
    \/ receive_block_mempool(n, h)
    \/ receive_block_publish(n, h)
    \/ PullStep(n, h)

NextRace ==
    \E n \in Nodes : MinerStep(n) \/ SyncerStep(n) \/ HandlerStep(n, "h1")

\* Every thread of every node is scheduled fairly.
FairRace ==
    \A n \in Nodes :
        /\ WF_vars(MinerStep(n))
        /\ WF_vars(SyncerStep(n))
        /\ WF_vars(HandlerStep(n, "h1"))

SpecRace == InitRace /\ [][NextRace]_vars /\ FairRace

\* ------------------------------------------------------------------ claims
ChainTxs(n) == chain_txs(SubSeq(chain[n], 2, Len(chain[n])))
Stepped(n, t) == task'[n][t].pc # task[n][t].pc

\* C1 (as claimed): in every reachable state, the states between the steps
\* of the threads included, no transaction of the mempool of a node has its
\* tx_id in a block of that node's chain.
MempoolDisjointFromChain ==
    \A n \in Running : \A i \in 1..Len(mempool[n]) :
        mempool[n][i].tx_id \notin chain_tx_ids(chain[n])

\* C2 (as claimed): chain[0] is the canonical genesis block and every later
\* block's prev_hash is the hash of the block before it.
GenesisAndLinks ==
    \A n \in Running :
        /\ chain[n][1] = Genesis
        /\ \A i \in 2..Len(chain[n]) :
              chain[n][i].prev_hash = chain[n][i - 1].hash

\* C3 (as claimed): every block of the chain, the first included, has a
\* hash with `difficulty` leading zeros that is the hash of its fields.
AllBlocksSealed ==
    \A n \in Running : \A i \in 1..Len(chain[n]) :
        /\ LeadingZeros(chain[n][i].hash) >= difficulty
        /\ chain[n][i].hash = generate_hash(chain[n][i])

\* C3 (amended): every block of the chain after chain[0] has a hash with
\* `difficulty` leading zeros that is the hash of its fields.
LaterBlocksSealed ==
    \A n \in Running : \A i \in 2..Len(chain[n]) :
        /\ LeadingZeros(chain[n][i].hash) >= difficulty
        /\ chain[n][i].hash = generate_hash(chain[n][i])

\* C3 witness: a chain of three blocks, as adopted from a peer or grown by
\* add_block.
LaterBlocksSealedWitness ==
    \E n \in Running : Len(chain[n]) >= 3

\* C4: a step of add_block (in receive_block or in mine) appends the block
\* and reports success exactly when the block's prev_hash is the tip's hash,
\* its hash has `difficulty` leading zeros and its hash is the hash of its
\* fields; otherwise it reports failure and the chain is unchanged.
AddBlockContract ==
    [][\A n \in Nodes : \A t \in Handlers \cup {"miner"} :
         (/\ Runs(n, t)
          /\ task[n][t].pc \in {"rb_add", "m_add"}
          /\ Stepped(n, t))
         => LET b == task[n][t].block
                tip == chain[n][Len(chain[n])]
                good == /\ b.prev_hash = tip.hash
                        /\ LeadingZeros(b.hash) >= difficulty
                        /\ b.hash = generate_hash(b)
            IN  IF good
                THEN /\ chain'[n] = Append(chain[n], b)
                     /\ task'[n][t].pc \in {"rb_mempool", "m_mempool"}
                ELSE /\ chain'[n] = chain[n]
                     /\ task'[n][t].pc \in {"sy_pull", "idle"}]_vars

\* C4 witness: the miner's add_block has succeeded while a handler's
\* add_block of a received block has failed.
AddBlockContractWitness ==
    \E n \in Running :
        /\ task[n]["miner"].pc = "m_mempool"
        /\ \E h \in Handlers : task[n][h].pc = "sy_pull"

\* C5: a step of replace_chain(c) makes c the local chain and reports
\* success exactly when c is strictly longer than the local chain and
\* is_valid_chain(c) holds; otherwise it reports failure and the chain is
\* unchanged.  The comparison and the assignment are one step.
ReplaceChainContract ==
    [][\A n \in Nodes : \A t \in Handlers \cup {"syncer"} :
         (/\ Runs(n, t)
          /\ task[n][t].pc = "hcr_replace"
          /\ Stepped(n, t))
         => LET c == task[n][t].new_chain
            IN  IF Len(c) > Len(chain[n]) /\ is_valid_chain(c)
                THEN chain'[n] = c /\ task'[n][t].pc = "hcr_mempool"
                ELSE chain'[n] = chain[n] /\ task'[n][t].pc = "sy_pull"]_vars

\* C5 witness: replace_chain has replaced a local chain of more than the
\* genesis block.
ReplaceChainContractWitness ==
    \E n \in Running : \E t \in Handlers \cup {"syncer"} :
        /\ task[n][t].pc = "hcr_mempool"
        /\ Len(task[n][t].old_chain) >= 2
        /\ chain[n] = task[n][t].new_chain

\* C6 (as claimed): a step of add_transaction for a transaction whose sender
\* is COINBASE leaves the mempool unchanged and sends nothing.
CoinbaseNotIngestedByGossip ==
    [][\A n \in Nodes : \A h \in Handlers :
         (/\ Runs(n, h)
          /\ task[n][h].pc \in {"at_chain", "at_verify", "at_insert"}
          /\ task[n][h].tx.sender_pubkey = COINBASE
          /\ Stepped(n, h))
         => mempool'[n] = mempool[n] /\ net' = net]_vars

\* C7 (as claimed): the mempool step of handle_chain_response, after a
\* longer chain was adopted, inserts no coinbase transaction of the replaced
\* chain.
OrphanCoinbaseNotReinjected ==
    [][\A n \in Nodes : \A t \in Handlers \cup {"syncer"} :
         (/\ Runs(n, t)
          /\ task[n][t].pc = "hcr_mempool"
          /\ Stepped(n, t))
         => LET old == chain_txs(task[n][t].old_chain)
            IN  \A i \in 1..Len(old) :
                    old[i].sender_pubkey = COINBASE
                    => ~(/\ in_mempool(mempool'[n], old[i])
                         /\ ~in_mempool(mempool[n], old[i]))]_vars

\* C8 (as claimed): whenever add_transaction appends a signed transaction to
\* the mempool, the sender's chain balance less the amount+fee of the
\* sender's transactions already in the mempool covers its amount+fee.
InsertedWithinEffectiveBalance ==
    [][\A n \in Nodes : \A h \in Handlers :
         (/\ Runs(n, h)
          /\ task[n][h].pc = "at_insert"
          /\ task[n][h].tx.sender_pubkey # COINBASE
          /\ mempool'[n] # mempool[n])
         => LET tx == task[n][h].tx
            IN  get_balance(chain[n], tx.sender_pubkey)
                  - pending_out(mempool[n], tx.sender_pubkey)
                >= tx.amount + tx.fee]_vars

\* C9 (as claimed): every public key that is the sender of a transaction of
\* the chain has a balance of at least 0.
SenderBalancesNonNegative ==
    \A n \in Running : \A i \in 1..Len(ChainTxs(n)) :
        ChainTxs(n)[i].sender_pubkey # COINBASE
        => get_balance(chain[n], ChainTxs(n)[i].sender_pubkey) >= 0

\* C10 (as claimed): every non-coinbase transaction of a block of the chain
\* carries a signature that verifies against its signing payload and its
\* sender_pubkey.
ChainTransactionsSigned ==
    \A n \in Running : \A i \in 1..Len(ChainTxs(n)) :
        ChainTxs(n)[i].sender_pubkey # COINBASE
        => /\ ChainTxs(n)[i].signature.by # "None"
           /\ ChainTxs(n)[i].signature =
                 ecdsa_sign(ChainTxs(n)[i].sender_pubkey,
                            get_signing_data(ChainTxs(n)[i]))

\* C11 (as claimed): no two blocks of the chain share a hash, and the index
\* of the block at position i of the chain is i (strictly increasing from 0).
DistinctHashesAndIndices ==
    \A n \in Running : \A i \in 1..Len(chain[n]) :
        /\ chain[n][i].index = i - 1
        /\ \A j \in 1..Len(chain[n]) :
              i # j => chain[n][i].hash # chain[n][j].hash

OthersIdle(n, t) ==
    \A u \in DOMAIN task[n] \ {t} :
        task[n][u].pc = "idle" /\ task'[n][u].pc = "idle"

\* verify_transaction for a transaction of a replaced chain: its signature,
\* and its amount+fee against the balance of the chain c less the sender's
\* other transactions in the mempool mp.
StillVerifies(c, mp, tx) ==
    /\ signature_ok(tx)
    /\ get_balance(c, tx.sender_pubkey)
         - pending_out(SelectSeq(mp, LAMBDA x : x.tx_id # tx.tx_id),
                       tx.sender_pubkey)
       >= tx.amount + tx.fee

\* C13 (as claimed): when the mempool step of handle_chain_response runs
\* after an adoption, with every other thread of the node idle, the mempool
\* then holds no transaction whose tx_id is in the adopted chain, and holds
\* every signed transaction of the old chain that is absent from the adopted
\* chain and still verifies under it.
AdoptionRepairsMempool ==
    [][\A n \in Nodes : \A t \in Handlers \cup {"syncer"} :
         (/\ Runs(n, t)
          /\ task[n][t].pc = "hcr_mempool"
          /\ Stepped(n, t)
          /\ OthersIdle(n, t)
          /\ chain[n] = task[n][t].new_chain
          /\ task[n][t].replaced = task[n][t].old_chain)
         => LET new == task[n][t].new_chain
                old == chain_txs(task[n][t].old_chain)
            IN  /\ \A i \in 1..Len(mempool'[n]) :
                      mempool'[n][i].tx_id \notin chain_tx_ids(new)
                /\ \A i \in 1..Len(old) :
                      (/\ old[i].sender_pubkey # COINBASE
                       /\ old[i].tx_id \notin chain_tx_ids(new)
                       /\ StillVerifies(new, mempool'[n], old[i]))
                      => in_mempool(mempool'[n], old[i])]_vars

\* C14 (as claimed): a signed transaction of the chain that replace_chain
\* swapped out, absent from the adopted chain and still valid under it, is
\* in the mempool after the mempool step of handle_chain_response (or is in
\* a block of the chain again).
SwappedOutTransactionsKept ==
    [][\A n \in Nodes : \A t \in Handlers \cup {"syncer"} :
         (/\ Runs(n, t)
          /\ task[n][t].pc = "hcr_mempool"
          /\ Stepped(n, t))
         => LET new == task[n][t].new_chain
                out == chain_txs(SubSeq(task[n][t].replaced, 2,
                                        Len(task[n][t].replaced)))
            IN  \A i \in 1..Len(out) :
                   (/\ out[i].sender_pubkey # COINBASE
                    /\ out[i].tx_id \notin chain_tx_ids(new)
                    /\ StillVerifies(new, mempool'[n], out[i]))
                   => \/ in_mempool(mempool'[n], out[i])
                      \/ out[i].tx_id \in chain_tx_ids(chain'[n])]_vars

\* Position a of mp comes before position b in the order of descending fee
\* with ties in insertion order.
FeeBefore(mp, a, b) ==
    mp[a].fee > mp[b].fee \/ (mp[a].fee = mp[b].fee /\ a < b)

\* p is the first k transactions of mp in that order.
IsFeePrefix(mp, p, k) ==
    /\ Len(p) = k
    /\ \E f \in [1..k -> 1..Len(mp)] :
          /\ \A j \in 1..k : p[j] = mp[f[j]]
          /\ \A i, j \in 1..k : i < j => FeeBefore(mp, f[i], f[j])
          /\ \A m \in 1..Len(mp) :
                (\A j \in 1..k : f[j] # m)
                => \A j \in 1..k : FeeBefore(mp, f[j], m)

RECURSIVE FeeTotal(_, _)
FeeTotal(p, k) == IF k = 0 THEN 0 ELSE FeeTotal(p, k - 1) + p[k].fee

\* C15: pick_transactions takes the first BLOCK_SIZE_LIMIT-1 transactions of
\* the mempool by descending fee, ties in insertion order; the block mine()
\* seals is [coinbase] + picked on the tip read before the proof of work,
\* with index tip.index+1 and prev_hash tip.hash, and the coinbase has sender
\* COINBASE, the miner as receiver, fee 0 and amount MINING_REWARD plus the
\* fees of the picked transactions.
MinedBlockContents ==
    [][\A n \in Nodes :
         /\ (Runs(n, "miner") /\ task[n]["miner"].pc = "idle"
               /\ Stepped(n, "miner"))
            => LET mp == mempool[n]
                   limit == BLOCK_SIZE_LIMIT - 1
               IN  IsFeePrefix(mp, task'[n]["miner"].picked,
                               IF Len(mp) < limit THEN Len(mp) ELSE limit)
         /\ (Runs(n, "miner") /\ task[n]["miner"].pc = "m_build"
               /\ Stepped(n, "miner"))
            => LET p == task[n]["miner"].picked
                   b == task'[n]["miner"].block
                   tip == chain[n][Len(chain[n])]
                   cb == b.transactions[1]
               IN  /\ Len(b.transactions) = Len(p) + 1
                   /\ SubSeq(b.transactions, 2, Len(p) + 1) = p
                   /\ cb.sender_pubkey = COINBASE
                   /\ cb.receiver_pubkey = public_key_str(n)
                   /\ cb.fee = 0
                   /\ cb.amount = MINING_REWARD + FeeTotal(p, Len(p))
                   /\ b.index = tip.index + 1
                   /\ b.prev_hash = tip.hash
                   /\ b.hash = generate_hash(b)
                   /\ LeadingZeros(b.hash) >= difficulty]_vars

\* C15 witness: the miner has sealed a block from a mempool of three
\* transactions of which the first inserted has the lowest fee: two were
\* picked, the first inserted was not.
MinedBlockContentsWitness ==
    \E n \in Running :
        /\ task[n]["miner"].pc = "m_add"
        /\ Len(mempool[n]) = 3
        /\ Len(task[n]["miner"].picked) = BLOCK_SIZE_LIMIT - 1
        /\ mempool[n][1].fee < task[n]["miner"].picked[2].fee
        /\ task[n]["miner"].picked = <<mempool[n][2], mempool[n][3]>>

\* C16: when the miner's add_block meets a tip other than the one the block
\* was built on, the step changes neither the chain nor the mempool, writes
\* nothing to disk, sends nothing, and mine() returns.
StaleMinedBlockDiscarded ==
    [][\A n \in Nodes :
         (/\ Runs(n, "miner")
          /\ task[n]["miner"].pc = "m_add"
          /\ Stepped(n, "miner")
          /\ task[n]["miner"].block.prev_hash # chain[n][Len(chain[n])].hash)
         => /\ chain' = chain
            /\ mempool' = mempool
            /\ disk' = disk
            /\ net' = net
            /\ gossiped' = gossiped
            /\ task'[n]["miner"].pc = "idle"]_vars

\* C16 witness: the miner holds a sealed block built on a tip that is no
\* longer the tip, and its picked transactions are all in the mempool.
StaleMinedBlockDiscardedWitness ==
    \E n \in Running :
        /\ task[n]["miner"].pc = "m_add"
        /\ task[n]["miner"].block.prev_hash # chain[n][Len(chain[n])].hash
        /\ task[n]["miner"].picked # <<>>
        /\ \A i \in 1..Len(task[n]["miner"].picked) :
              in_mempool(mempool[n], task[n]["miner"].picked[i])

SyncPcs == {"sy_pull", "hcr_snapshot", "hcr_replace", "hcr_mempool", "hcr_save"}

\* C17: when add_block fails for an inbound block, the step changes neither
\* chain nor mempool and sends nothing, and the handler starts
\* request_chain_from_peers at the first peer; from there the handler gossips
\* no block, moves from one peer to the next only, and ends only after the
\* last configured peer.
FailedBlockStartsPull ==
    [][\A n \in Nodes : \A h \in Handlers :
         /\ (/\ Runs(n, h)
             /\ task[n][h].pc = "rb_add"
             /\ Stepped(n, h)
             /\ LET b == task[n][h].block
                IN  ~(/\ b.prev_hash = chain[n][Len(chain[n])].hash
                      /\ LeadingZeros(b.hash) >= difficulty
                      /\ b.hash = generate_hash(b)))
            => /\ chain' = chain /\ mempool' = mempool
               /\ net' = net /\ gossiped' = gossiped
               /\ task'[n][h].pc = "sy_pull"
               /\ task'[n][h].peer = 1
         /\ (/\ Runs(n, h)
             /\ task[n][h].pc \in SyncPcs
             /\ task'[n][h] # task[n][h])
            => /\ net' = net /\ gossiped' = gossiped
               /\ task'[n][h].pc \in SyncPcs \cup {"idle"}
               /\ task'[n][h].pc = "idle"
                    => /\ task[n][h].pc = "sy_pull"
                       /\ task[n][h].peer = Len(peers[n]) + 1
               /\ task'[n][h].pc # "idle"
                    => task'[n][h].peer \in {task[n][h].peer,
                                             task[n][h].peer + 1}
               /\ task'[n][h].peer = task[n][h].peer + 1
                    => task[n][h].peer <= Len(peers[n])]_vars

\* C17 witness: a handler whose add_block failed has been through all the
\* configured peers.
FailedBlockStartsPullWitness ==
    \E n \in Running : \E h \in Handlers :
        /\ Runs(n, h)
        /\ task[n][h].pc = "sy_pull"
        /\ task[n][h].peer = Len(peers[n]) + 1

BlockMessages(b) == {m \in BagToSet(b) : m.type = "block"}
Holds(n, b) == \E i \in 1..Len(chain[n]) : chain[n][i].hash = b.hash

\* C18: block messages are sent only by the gossip step that follows a
\* successful add_block; add_block fails for a block the node holds, which
\* is then not gossiped; and no node gossips a block it has gossiped before.
BlockGossipedOnce ==
    [][/\ BlockMessages(net') \ BlockMessages(net) # {}
          => \E n \in Nodes : \E t \in Handlers \cup {"miner"} :
                /\ Runs(n, t)
                /\ task[n][t].pc \in {"rb_publish", "m_publish"}
                /\ Stepped(n, t)
       /\ \A n \in Nodes : \A t \in Handlers \cup {"miner"} :
             /\ (/\ Runs(n, t)
                 /\ task[n][t].pc \in {"rb_publish", "m_publish"}
                 /\ Stepped(n, t))
                => <<n, task[n][t].block.hash>> \notin gossiped
             /\ (/\ Runs(n, t)
                 /\ task[n][t].pc = "rb_add"
                 /\ Stepped(n, t)
                 /\ Holds(n, task[n][t].block))
                => chain' = chain /\ task'[n][t].pc = "sy_pull"]_vars

\* C18 witness: the block a node gossiped has come back to it from its peer
\* and is about to be refused.
BlockGossipedOnceWitness ==
    \E n \in Running : \E h \in Handlers :
        /\ Runs(n, h)
        /\ task[n][h].pc = "rb_add"
        /\ Holds(n, task[n][h].block)
        /\ <<n, task[n][h].block.hash>> \in gossiped
        /\ <<Other(n), task[n][h].block.hash>> \in gossiped

Longest == IF Len(chain["N1"]) > Len(chain["N2"])
           THEN Len(chain["N1"]) ELSE Len(chain["N2"])
Pulled(n) == syncLeft[n] < PullRounds /\ task[n]["syncer"].pc = "idle"

\* C19: with only pulls running, the greater of the two chain lengths never
\* changes and no chain gets shorter; while the lengths are equal no chain
\* changes; and once each node has completed a pull of the other, both
\* chains have the same length (the greater of the two initial lengths).
PullsConverge ==
    /\ []((Pulled("N1") /\ Pulled("N2"))
            => Len(chain["N1"]) = Len(chain["N2"]))
    /\ [][/\ Longest' = Longest
          /\ \A n \in Nodes : Len(chain'[n]) >= Len(chain[n])
          /\ Len(chain["N1"]) = Len(chain["N2"]) => chain' = chain]_vars

\* C19 witness: each node has completed a pull, and the node that held the
\* shorter chain has adopted the three blocks of the other.
PullsConvergeWitness ==
    /\ Pulled("N1") /\ Pulled("N2")
    /\ chain["N1"] = chain["N2"]
    /\ Len(chain["N1"]) = 3
    /\ \E n \in Nodes : Len(disk[n]) = 3 /\ mempool[n] # <<>>

\* The race has happened: each node has appended its own block with RaceTx
\* on the genesis block.
Raced ==
    /\ \A n \in Nodes : Len(chain[n]) >= 2
    /\ chain["N1"][2].hash # chain["N2"][2].hash
    /\ \A n \in Nodes :
          \E k \in 1..Len(chain[n][2].transactions) :
              chain[n][2].transactions[k] = RaceTx
BlocksWith(c, tx) ==
    {i \in 1..Len(c) : \E k \in 1..Len(c[i].transactions) :
                           c[i].transactions[k] = tx}
Converged ==
    /\ chain["N1"] = chain["N2"]
    /\ Cardinality(BlocksWith(chain["N1"], RaceTx)) = 1

\* Nothing is pending: no message is in flight, the mempools are empty, the
\* miners and the handlers have nothing to do, the chains are equally long
\* and a pull under way holds an answer that is not longer.
Settled ==
    /\ net = EmptyBag
    /\ Len(chain["N1"]) = Len(chain["N2"])
    /\ \A n \in Nodes :
          /\ mempool[n] = <<>>
          /\ task[n]["miner"].pc = "idle"
          /\ \A t \in {"h1", "syncer"} :
                /\ task[n][t].pc \in {"idle", "sy_pull", "hcr_snapshot",
                                      "hcr_replace"}
                /\ Len(task[n][t].new_chain) <= Len(chain[n])

\* From a settled state every step leads to a settled state with the same
\* chains: the only steps left are pulls that replace nothing.
SettledIsFinal == [][Settled => (Settled' /\ chain' = chain)]_vars

\* C20: after the two-miner race, under fair scheduling, the two nodes come
\* to share one chain, and RaceTx is in exactly one block of it.  The chains
\* of a settled state never change (SettledIsFinal), so the nodes then share
\* that chain in every settled state after the race.
RaceSettlesConverged == (Raced /\ Settled) => Converged

\* The sum of the values of a function with a finite domain.
RECURSIVE SumFn(_)
SumFn(f) ==
    IF DOMAIN f = {} THEN 0
    ELSE LET x == CHOOSE y \in DOMAIN f : TRUE
         IN  f[x] + SumFn([y \in DOMAIN f \ {x} |-> f[y]])

\* The places <<block, position>> of the transactions of the non-genesis
\* blocks of a chain, and the positions of those of a mempool.
TxPlaces(c) ==
    {p \in (2..Len(c)) \X (1..BLOCK_SIZE_LIMIT + 1) :
        /\ p[2] <= Len(c[p[1]].transactions)
        /\ isTransaction(c[p[1]].transactions[p[2]])}
Credits(c, pk) ==
    SumFn([p \in {q \in TxPlaces(c) :
                     c[q[1]].transactions[q[2]].receiver_pubkey = pk} |->
              c[p[1]].transactions[p[2]].amount])
Debits(c, pk) ==
    SumFn([p \in {q \in TxPlaces(c) :
                     c[q[1]].transactions[q[2]].sender_pubkey = pk} |->
              c[p[1]].transactions[p[2]].amount
                 + c[p[1]].transactions[p[2]].fee])
PendingDebits(mp, pk) ==
    SumFn([i \in {j \in 1..Len(mp) : mp[j].sender_pubkey = pk} |->
              mp[i].amount + mp[i].fee])
ExampleChain ==
    <<Genesis,
      MinedBlock("N2", Genesis,
          <<sign_transaction("N1",
               Transaction("N1", "N2", 10, 1, 1, NoSignature, Now))>>, 2)>>

\* C21: get_balance(pk) is 100 plus the amounts received by pk minus the
\* amount+fee sent by pk in the non-genesis blocks; get_balance_with_mempool
\* is that minus the amount+fee of the mempool's transactions sent by pk; no
\* node account is debited by a coinbase; after one block with a 10-unit,
\* fee-1 transfer from N1 to the miner N2 the balances are 89 and 121.
BalanceContract ==
    /\ \A n \in Nodes : \A pk \in Nodes \cup {EXT} :
          /\ get_balance(chain[n], pk)
                = 100 + Credits(chain[n], pk) - Debits(chain[n], pk)
          /\ get_balance_with_mempool(chain[n], pk, mempool[n])
                = get_balance(chain[n], pk) - PendingDebits(mempool[n], pk)
    /\ get_balance(ExampleChain, "N1") = 89
    /\ get_balance(ExampleChain, "N2") = 121

\* C21 witness: a chain with a transfer with a fee in a mined block, and a
\* mempool with a pending transfer of the same sender.
BalanceContractWitness ==
    \E n \in Nodes : \E pk \in Nodes :
        /\ Debits(chain[n], pk) > Credits(chain[n], pk)
        /\ PendingDebits(mempool[n], pk) > 0
        /\ \E p \in TxPlaces(chain[n]) :
              /\ chain[n][p[1]].transactions[p[2]].sender_pubkey = pk
              /\ chain[n][p[1]].transactions[p[2]].fee > 0

\* C22: the checks of add_transaction and its mempool append are one
\* critical section of the node lock: while a handler of node n is between
\* verify_transaction and the append, no step of another thread changes
\* the mempool of n.
ChecksAndAppendAtomic ==
    [][\A n \in Nodes : \A t \in Handlers :
          (/\ Runs(n, t)
           /\ task[n][t].pc = "at_insert"
           /\ task'[n][t] = task[n][t])
          => mempool'[n] = mempool[n]]_vars

\* C23: what from_dict makes of the to_dict of a sealed block hashes to the
\* block's hash, and what it makes of the to_dict of a signed transaction
\* carries a signature that verifies, for every field value, a timestamp of
\* 0 and transactions nested in a block included.
CodecRoundTrip ==
    \A n \in Nodes : \A h \in Handlers :
        Runs(n, h) =>
          /\ task[n][h].pc = "rb_add"
                => generate_hash(task[n][h].block) = task[n][h].block.hash
          /\ task[n][h].pc = "at_chain" => signature_ok(task[n][h].tx)

\* The messages the claim calls malformed: bytes that are not JSON, a
\* missing or unknown type, and a payload that lacks a field of its dict.
TxDictFields ==
    {"tx_id", "sender_pubkey", "receiver_pubkey", "amount", "fee",
     "timestamp", "signature"}
BlockDictFields ==
    {"index", "timestamp", "transactions", "prev_hash", "nonce", "hash"}
IsMalformed(m) ==
    \/ "text" \in DOMAIN m
    \/ "type" \notin DOMAIN m
    \/ m.type \notin {"transaction", "block", "create_transaction"}
    \/ "data" \notin DOMAIN m
    \/ m.type = "transaction" /\ ~(TxDictFields \subseteq DOMAIN m.data)
    \/ m.type = "block" /\ ~(BlockDictFields \subseteq DOMAIN m.data)
    \/ /\ m.type = "create_transaction"
       /\ ~({"receiver_pubkey", "amount"} \subseteq DOMAIN m.data)

\* C24: the step that takes a malformed message off the network leaves
\* chain and mempool unchanged, sends nothing and starts no work: every
\* handler is as before, so the connection is closed and the handlers stay
\* free for later messages.
MalformedIgnored ==
    [][\A m \in BagToSet(net) :
          (IsMalformed(m) /\ net' = net (-) SetToBag({m}))
          => (task' = task /\ chain' = chain /\ mempool' = mempool)]_vars

Holds_lock(n, t) == {l \in {"N", "C"} : lock_owner[n][l] = t}

\* C25: a thread that is in a connect/send to a peer or in the
\* proof-of-work search holds neither the node lock nor the chain lock.
NoBlockingUnderLock ==
    \A n \in Nodes : \A t \in Threads :
        (section[n][t] # <<>> /\ Head(section[n][t]) \in {"io", "pow"})
        => Holds_lock(n, t) = {}

\* The threads of node n that wait for a lock.
Waiting(n) ==
    {t \in Threads :
        /\ section[n][t] # <<>>
        /\ Head(section[n][t]) \in {"acqN", "acqC"}
        /\ lock_owner[n][LockOf(Head(section[n][t]))] # "free"}

\* C29: a thread that takes the node lock does not hold the chain lock, no
\* thread takes a lock it holds, and there is no deadlock: no set of
\* threads of a node in which each waits for a lock held by one of the set.
LockOrderNoDeadlock ==
    \A n \in Nodes :
        /\ \A t \in Threads :
              (section[n][t] # <<>> /\ Head(section[n][t]) \in {"acqN", "acqC"})
              => /\ lock_owner[n][LockOf(Head(section[n][t]))] # t
                 /\ Head(section[n][t]) = "acqN" => lock_owner[n]["C"] # t
        /\ \A S \in SUBSET Waiting(n) :
              S # {} =>
                \E t \in S :
                    lock_owner[n][LockOf(Head(section[n][t]))] \notin S

\* C29 witness: a thread holds the node lock and the chain lock at once
\* (verify_transaction inside handle_chain_response) while a second thread
\* waits for the chain lock and a third for the node lock.
LockOrderNoDeadlockWitness ==
    \E t \in Threads :
        /\ Holds_lock("N1", t) = {"N", "C"}
        /\ \E u, v \in Waiting("N1") :
              /\ Head(section["N1"][u]) = "acqC"
              /\ Head(section["N1"][v]) = "acqN"

IsCoinbase(tx) == isTransaction(tx) /\ tx.sender_pubkey = COINBASE

\* C26: every non-genesis block of every chain holds at most
\* BLOCK_SIZE_LIMIT transactions, at most one of them a coinbase, and a
\* coinbase only in the first place.
BlocksWithinLimit ==
    \A n \in Nodes : \A i \in 2..Len(chain[n]) :
        LET txs == chain[n][i].transactions
        IN  /\ Len(txs) <= BLOCK_SIZE_LIMIT
            /\ \A k \in 2..Len(txs) : ~IsCoinbase(txs[k])

\* C27: every transaction in a mempool or in a chain has an amount and a fee
\* that are not negative: a request with a negative amount or fee is
\* rejected.
AmountsNotNegative ==
    \A n \in Nodes :
        /\ \A i \in 1..Len(mempool[n]) :
              mempool[n][i].amount >= 0 /\ mempool[n][i].fee >= 0
        /\ \A i \in 1..Len(ChainTxs(n)) :
              ChainTxs(n)[i].amount >= 0 /\ ChainTxs(n)[i].fee >= 0

\* C28: when every block is made by mine() of a node, no tx_id is in two
\* places of the non-genesis blocks of a node's chain.
TxIdInOneBlock ==
    \A n \in Nodes : \A i, j \in 1..Len(ChainTxs(n)) :
        ChainTxs(n)[i].tx_id = ChainTxs(n)[j].tx_id => i = j

\* C30: the chain of a running node never gets shorter: a step leaves it
\* unchanged, or appends exactly one block to it (the add_block of
\* receive_block or of mine), or replaces it by a strictly longer chain
\* (the replace_chain of handle_chain_response).
ChainNeverShrinks ==
    [][\A n \in Nodes :
          \/ chain'[n] = chain[n]
          \/ /\ \E t \in Threads :
                   /\ Runs(n, t)
                   /\ task[n][t].pc \in {"rb_add", "m_add"}
                   /\ Stepped(n, t)
                   /\ chain'[n] = Append(chain[n], task[n][t].block)
          \/ /\ \E t \in Threads :
                   /\ Runs(n, t)
                   /\ task[n][t].pc = "hcr_replace"
                   /\ Stepped(n, t)
                   /\ chain'[n] = task[n][t].new_chain
             /\ Len(chain'[n]) > Len(chain[n])]_vars

\* C30 witness: a handle_chain_response has just replaced a chain of two
\* or more blocks by a longer chain that does not extend it.
ChainNeverShrinksWitness ==
    \E n \in Running : \E t \in DOMAIN task[n] :
        /\ task[n][t].pc = "hcr_mempool"
        /\ Len(task[n][t].replaced) >= 2
        /\ chain[n] = task[n][t].new_chain
        /\ Len(chain[n]) > Len(task[n][t].replaced)
        /\ SubSeq(chain[n], 1, Len(task[n][t].replaced)) # task[n][t].replaced
====
